---------------------------- MODULE Spec2Model ----------------------------
(***************************************************************************)
(* A model of cogeo_mosaic.backends.base.BaseBackend (the mosaic index,    *)
(* its quadkey resolution, its asset cache and its update protocol) and of *)
(* the helpers of cogeo_mosaic.utils it calls.                             *)
(*                                                                         *)
(* Tiles are records [x, y, z]; a quadkey is the sequence of its digits    *)
(* (0..3), most significant first; an asset list is a sequence of asset    *)
(* names.  Geographic coordinates are integers on a grid of                *)
(* 2^GridZoom x 2^GridZoom cells, longitude growing eastwards and latitude *)
(* northwards.                                                             *)
(***************************************************************************)
EXTENDS Integers, Sequences, FiniteSets, TLC

VARIABLES
    mosaic_def,   \* self.mosaic_def: the MosaicJSON document held in memory
    bounds,       \* self.bounds: the backend's own copy of the bounds
    cache,        \* the TTLCache behind get_assets, least recently used first
    stored,       \* the document last handed to write()
    last,         \* the last completed call: its arguments and its outcome
    upd,          \* a running update(): its position and its locals
    rd,           \* a running get_assets() of another thread: the same
    fp            \* a running get_footprints(): its futures and its result

vars == <<mosaic_def, bounds, cache, stored, last, upd, rd, fp>>

----------------------------------------------------------------------------
(* Bounds of the model *)

\* deepest zoom of the tiles handed to find_quadkeys in QuadkeySpec
MaxZoom == 3

\* deepest zoom of the index and of the queried tiles in the backend's
\* specifications; the geographic grid has 2^GridZoom cells a side
MaxQueryZoom == 2

\* update() is not started once the document's version has reached this
MaxVersion == 2

\* the longest dataset_list handed to get_footprints
MaxDatasets == 3

\* the largest max_threads handed to get_footprints
MaxThreads == 2

GridZoom == MaxQueryZoom

None == "None"

----------------------------------------------------------------------------
(* Sequences *)

RECURSIVE Pow2(_)
Pow2(n) == IF n = 0 THEN 1 ELSE 2 * Pow2(n - 1)

RECURSIVE Flatten(_)
\* itertools.chain.from_iterable over a list of lists
Flatten(ss) == IF ss = <<>> THEN <<>> ELSE Head(ss) \o Flatten(Tail(ss))

Range(s) == {s[i] : i \in 1..Len(s)}

\* list(reversed(s))
Reversed(s) == [i \in 1..Len(s) |-> s[Len(s) + 1 - i]]

\* list(dict.fromkeys(s)): a dict keeps the insertion order of its keys and
\* setting a key again does not move it
DedupeDropLast(s) ==
    LET F[i \in 0..Len(s)] ==
            IF i = 0 THEN <<>>
            ELSE IF \E j \in (i + 1)..Len(s) : s[j] = s[i]
                 THEN F[i - 1]
                 ELSE Append(F[i - 1], s[i])
    IN  F[Len(s)]

Dedupe(s) ==
    LET F[i \in 0..Len(s)] ==
            IF i = 0 THEN <<>>
            ELSE IF \E j \in 1..(i - 1) : s[j] = s[i]
                 THEN F[i - 1]
                 ELSE Append(F[i - 1], s[i])
    IN  F[Len(s)]

----------------------------------------------------------------------------
(* The tile matrix set (WebMercatorQuad, a quadtree) *)

Tile(x, y, z) == [x |-> x, y |-> y, z |-> z]

TilesAt(z) == {Tile(x, y, z) : x \in 0..(Pow2(z) - 1), y \in 0..(Pow2(z) - 1)}

Bit(n, k) == (n \div Pow2(k)) % 2

\* tms.quadkey(x, y, z)
quadkey(t) == [i \in 1..t.z |-> Bit(t.x, t.z - i) + 2 * Bit(t.y, t.z - i)]

\* tms.quadkey_to_tile(qk)
quadkey_to_tile(qk) ==
    LET n == Len(qk)
        F[i \in 0..n] ==
            IF i = 0 THEN <<0, 0>>
            ELSE LET d == qk[n + 1 - i]
                 IN  <<F[i - 1][1] + (d % 2) * Pow2(i - 1),
                       F[i - 1][2] + (d \div 2) * Pow2(i - 1)>>
    IN  Tile(F[n][1], F[n][2], n)

\* tms.parent(tile): the list of the tile's parents, one in a quadtree
parent(t) == <<Tile(t.x \div 2, t.y \div 2, t.z - 1)>>

\* tms.children(tile)
children(t) ==
    <<Tile(2 * t.x, 2 * t.y, t.z + 1),
      Tile(2 * t.x + 1, 2 * t.y, t.z + 1),
      Tile(2 * t.x + 1, 2 * t.y + 1, t.z + 1),
      Tile(2 * t.x, 2 * t.y + 1, t.z + 1)>>

----------------------------------------------------------------------------
(* BaseBackend.find_quadkeys *)

RECURSIVE ParentSteps(_, _)
\* for _ in range(depth): tile = self.tms.parent(tile)[0]
ParentSteps(t, depth) ==
    IF depth = 0 THEN t ELSE ParentSteps(parent(t)[1], depth - 1)

RECURSIVE ChildSteps(_, _)
\* for _ in range(depth): tiles = sum([self.tms.children(t) for t in tiles], [])
ChildSteps(ts, depth) ==
    IF depth = 0 THEN ts
    ELSE ChildSteps(Flatten([i \in 1..Len(ts) |-> children(ts[i])]), depth - 1)

find_quadkeys_short(t, zoom) ==
    IF t.z > zoom
    THEN <<quadkey(ParentSteps(t, t.z - zoom - 1))>>
    ELSE IF t.z < zoom
    THEN LET ts == ChildSteps(<<t>>, zoom - t.z - 1)
             at == SelectSeq(ts, LAMBDA c : c.z = zoom - 1)
         IN  [i \in 1..Len(at) |-> quadkey(at[i])]
    ELSE <<quadkey(t)>>

find_quadkeys(t, zoom) ==
    IF t.z > zoom
    THEN <<quadkey(ParentSteps(t, t.z - zoom))>>
    ELSE IF t.z < zoom
    THEN LET ts == ChildSteps(<<t>>, zoom - t.z)
             at == SelectSeq(ts, LAMBDA c : c.z = zoom)
         IN  [i \in 1..Len(at) |-> quadkey(at[i])]
    ELSE <<quadkey(t)>>

----------------------------------------------------------------------------
(* Geographic coordinates, rasterio's transforms and tms.tile *)

World == Pow2(GridZoom)

WGS84_CRS == "WGS84"

\* a second reference system, whose x axis runs the other way
OTHER_CRS == "OTHER"

CRSs == {WGS84_CRS, OTHER_CRS}

\* rasterio.warp.transform between two different reference systems
warp(src_crs, dst_crs, lng, lat) == <<World - 1 - lng, lat>>

\* utils.transform_point
transform_point(lng, lat, src_crs, dst_crs) ==
    IF src_crs # dst_crs THEN warp(src_crs, dst_crs, lng, lat) ELSE <<lng, lat>>

\* rasterio.warp.transform_bounds between two different reference systems
transform_bounds(src_crs, dst_crs, xmin, ymin, xmax, ymax) ==
    <<World - 1 - xmax, ymin, World - 1 - xmin, ymax>>

\* tms.tile(lng, lat, zoom): the tile of that zoom holding the point; tile
\* rows are counted from the north
tms_tile(lng, lat, zoom) ==
    Tile(lng \div Pow2(GridZoom - zoom),
         (World - 1 - lat) \div Pow2(GridZoom - zoom),
         zoom)

bbox_union_first(bbox_1, bbox_2) == bbox_1

\* utils.bbox_union
bbox_union(bbox_1, bbox_2) ==
    <<IF bbox_1[1] <= bbox_2[1] THEN bbox_1[1] ELSE bbox_2[1],
      IF bbox_1[2] <= bbox_2[2] THEN bbox_1[2] ELSE bbox_2[2],
      IF bbox_1[3] >= bbox_2[3] THEN bbox_1[3] ELSE bbox_2[3],
      IF bbox_1[4] >= bbox_2[4] THEN bbox_1[4] ELSE bbox_2[4]>>

----------------------------------------------------------------------------
(* The MosaicJSON document *)

\* self.input
input == "mosaic.json"

\* BaseBackend.quadkey_zoom: mosaic_def.quadkey_zoom or mosaic_def.minzoom.
\* None and 0 are both false in Python; a document with no quadkey_zoom
\* holds 0 here
quadkey_zoom(def) ==
    IF def.quadkey_zoom = 0 THEN def.minzoom ELSE def.quadkey_zoom

\* mosaic_def.tiles.get(qk, [])
tiles_get(tiles, qk) == IF qk \in DOMAIN tiles THEN tiles[qk] ELSE <<>>

\* mosaic_def.tiles[qk] = assets
tiles_set(tiles, qk, assets) ==
    [k \in DOMAIN tiles \cup {qk} |-> IF k = qk THEN assets ELSE tiles[k]]

\* the midpoint of the bounds at minzoom; the two coordinates are kept in
\* half cells (twice their value), which keeps the division by 2 exact
center_of(b, minzoom) == <<b[1] + b[3], b[2] + b[4], minzoom>>

\* backends.utils.get_hash of the document's fields: a digest, taken to be
\* free of collisions
get_hash(fields) == fields

\* BaseBackend.mosaicid
mosaicid(def) == get_hash(def)

\* cachetools.keys.hashkey(self.input, x, y, z, self.mosaicid)
hashkey_no_id(def, x, y, z) == <<input, x, y, z>>

hashkey(def, x, y, z) == <<input, x, y, z, mosaicid(def)>>

----------------------------------------------------------------------------
(* BaseBackend.get_assets and its cache *)

\* cache_config.maxsize
CacheMaxSize == 2

\* the body of get_assets
get_assets_body(def, x, y, z) ==
    LET quadkeys == find_quadkeys(Tile(x, y, z), quadkey_zoom(def))
    IN  Dedupe(Flatten([i \in 1..Len(quadkeys) |->
                            tiles_get(def.tiles, quadkeys[i])]))

CacheIndex(c, key) ==
    IF \E i \in 1..Len(c) : c[i].key = key
    THEN CHOOSE i \in 1..Len(c) : c[i].key = key
    ELSE 0

Without(c, i) == [j \in 1..(Len(c) - 1) |-> IF j < i THEN c[j] ELSE c[j + 1]]

\* cache[key] = value: the entry becomes the most recently used one and the
\* least recently used ones are dropped while the cache is over its size
CachePut(c, entry) ==
    LET d == Append(c, entry)
    IN  IF Len(d) > CacheMaxSize
        THEN SubSeq(d, Len(d) - CacheMaxSize + 1, Len(d))
        ELSE d

\* get_assets behind cachetools.cached: a hit returns the stored list and
\* makes the entry the most recently used one, a miss runs the body and
\* stores its result.  An entry carries the version of the document its
\* list was resolved from (src, kept for the properties only).
get_assets(def, c, x, y, z) ==
    LET key == hashkey(def, x, y, z)
        i == CacheIndex(c, key)
    IN  IF i # 0
        THEN [ret |-> c[i].val, hit |-> TRUE, src |-> c[i].src,
              cache |-> Append(Without(c, i), c[i])]
        ELSE LET v == get_assets_body(def, x, y, z)
             IN  [ret |-> v, hit |-> FALSE, src |-> def.version,
                  cache |-> CachePut(c, [key |-> key, val |-> v,
                                         src |-> def.version])]

----------------------------------------------------------------------------
(* MosaicJSON.from_features and MosaicJSON._increase_version *)

\* a feature: a dataset's path and its bounds (xmin, ymin, xmax, ymax)
Feature(path, b) == [path |-> path, bounds |-> b]

\* the tiles of a zoom in the order from_features visits them
ScanTiles(zoom) ==
    LET n == Pow2(zoom)
    IN  [i \in 1..(n * n) |-> Tile((i - 1) \div n, (i - 1) % n, zoom)]

\* whether the tile lies in the tile range a rectangle covers at the zoom
Covers(b, t) ==
    LET tl == tms_tile(b[1], b[4], t.z)
        br == tms_tile(b[3], b[2], t.z)
    IN  tl.x <= t.x /\ t.x <= br.x /\ tl.y <= t.y /\ t.y <= br.y

RECURSIVE UnionAll(_)
UnionAll(bs) ==
    IF Len(bs) = 1 THEN bs[1] ELSE bbox_union(bs[1], UnionAll(Tail(bs)))

\* MosaicJSON.from_features(features, minzoom, maxzoom, quadkey_zoom): it
\* fails (ok is FALSE) on a list that is empty or holds a feature with no
\* path; otherwise it returns the candidate index: under each quadkey a feature
\* covers, the paths of the features covering it, and the features' bounds.
\* The tiles are the items of the candidate's dict, in insertion order.
from_features(features, minzoom, maxzoom, zoom) ==
    IF features = <<>> \/ \E i \in 1..Len(features) : features[i].path = None
    THEN [ok |-> FALSE]
    ELSE LET over(t) == SelectSeq(features, LAMBDA f : Covers(f.bounds, t))
             hit == SelectSeq(ScanTiles(zoom), LAMBDA t : over(t) # <<>>)
         IN  [ok |-> TRUE,
              tiles |-> [i \in 1..Len(hit) |->
                            <<quadkey(hit[i]),
                              [j \in 1..Len(over(hit[i])) |->
                                  over(hit[i])[j].path]>>],
              bounds |-> UnionAll([i \in 1..Len(features) |->
                                      features[i].bounds])]

\* MosaicJSON._increase_version
increase_version(def) == [def EXCEPT !.version = @ + 1]

----------------------------------------------------------------------------
(* BaseBackend.update, statement by statement.  A backend state is a       *)
(* record of self.mosaic_def, self.bounds, the cache and the document the  *)
(* storage holds.                                                          *)

Backend(def, b, c, st) ==
    [mosaic_def |-> def, bounds |-> b, cache |-> c, stored |-> st]

\* [*new_assets, *assets] if add_first else [*assets, *new_assets]
merged_assets(new_assets, assets, add_first) ==
    IF add_first THEN new_assets \o assets ELSE assets \o new_assets

\* one turn of the loop over new_mosaic.tiles.items()
update_merge(s, item, add_first) ==
    LET t == quadkey_to_tile(item[1])
        g == get_assets(s.mosaic_def, s.cache, t.x, t.y, t.z)
        assets == merged_assets(item[2], g.ret, add_first)
    IN  [s EXCEPT !.cache = g.cache,
                  !.mosaic_def.tiles = tiles_set(@, item[1], assets)]

RECURSIVE update_loop(_, _, _)
update_loop(s, items, add_first) ==
    IF items = <<>> THEN s
    ELSE update_loop(update_merge(s, Head(items), add_first),
                     Tail(items), add_first)

\* bounds = bbox_union(new_mosaic.bounds, self.mosaic_def.bounds)
update_union(s, cand) == bbox_union(cand.bounds, s.mosaic_def.bounds)

update_version_skipped(s) == s

\* self.mosaic_def._increase_version()
update_version(s) == [s EXCEPT !.mosaic_def = increase_version(@)]

\* self.mosaic_def.bounds = bounds
update_bounds(s, b) == [s EXCEPT !.mosaic_def.bounds = b]

update_center_skipped(s, b) == s

\* self.mosaic_def.center = (...)
update_center(s, b) ==
    [s EXCEPT !.mosaic_def.center = center_of(b, s.mosaic_def.minzoom)]

\* self.bounds = bounds
update_self_bounds(s, b) == [s EXCEPT !.bounds = b]

update_write_rollback(s, write_ok) ==
    IF write_ok THEN [s EXCEPT !.stored = s.mosaic_def]
    ELSE [s EXCEPT !.mosaic_def = s.stored, !.bounds = s.stored.bounds]

\* self.write(overwrite=True): the storage takes the document, or fails
update_write(s, write_ok) ==
    IF write_ok THEN [s EXCEPT !.stored = s.mosaic_def] ELSE s

\* update() from the candidate index on: lines 108-126
update_apply(s, cand, add_first, write_ok) ==
    LET s1 == update_loop(s, cand.tiles, add_first)
        b == update_union(s1, cand)
        s2 == update_self_bounds(
                  update_center(
                      update_bounds(update_version(s1), b), b), b)
    IN  update_write(s2, write_ok)

update_version_first(s, features, add_first, write_ok) ==
    LET def == s.mosaic_def
        cand == from_features(features, def.minzoom, def.maxzoom,
                              quadkey_zoom(def))
    IN  IF ~cand.ok
        THEN [s |-> update_version(s), outcome |-> "invalid", writes |-> 0,
              cand |-> cand]
        ELSE [s |-> update_apply(s, cand, add_first, write_ok),
              outcome |-> IF write_ok THEN "ok" ELSE "write_failed",
              writes |-> 1, cand |-> cand]

\* BaseBackend.update as one call: the state it leaves, how it ended
\* ("invalid": from_features failed; "write_failed": write failed; "ok"),
\* the number of calls of write and the candidate index
update(s, features, add_first, write_ok) ==
    LET def == s.mosaic_def
        cand == from_features(features, def.minzoom, def.maxzoom,
                              quadkey_zoom(def))
    IN  IF ~cand.ok
        THEN [s |-> s, outcome |-> "invalid", writes |-> 0, cand |-> cand]
        ELSE [s |-> update_apply(s, cand, add_first, write_ok),
              outcome |-> IF write_ok THEN "ok" ELSE "write_failed",
              writes |-> 1, cand |-> cand]

----------------------------------------------------------------------------
(* The queries: assets_for_point, assets_for_bbox, tile and point *)

\* self.geographic_crs
geographic_crs == WGS84_CRS

\* BaseBackend.assets_for_point
assets_for_point(def, c, lng, lat, coord_crs) ==
    LET p == transform_point(lng, lat, coord_crs, geographic_crs)
        t == tms_tile(p[1], p[2], quadkey_zoom(def))
    IN  get_assets(def, c, t.x, t.y, t.z)

TileRangeExclusive(tl, br, zoom) ==
    LET nx == IF br.x > tl.x THEN br.x - tl.x ELSE 0
        ny == IF br.y > tl.y THEN br.y - tl.y ELSE 0
    IN  [i \in 1..(nx * ny) |->
            Tile(tl.x + ((i - 1) \div ny), tl.y + ((i - 1) % ny), zoom)]

\* [(x, y, zoom) for x in range(tl.x, br.x + 1) for y in range(tl.y, br.y + 1)]
TileRange(tl, br, zoom) ==
    LET nx == IF br.x >= tl.x THEN br.x - tl.x + 1 ELSE 0
        ny == IF br.y >= tl.y THEN br.y - tl.y + 1 ELSE 0
    IN  [i \in 1..(nx * ny) |->
            Tile(tl.x + ((i - 1) \div ny), tl.y + ((i - 1) % ny), zoom)]

\* the tiles assets_for_bbox asks get_assets for
BboxTiles(def, xmin, ymin, xmax, ymax, coord_crs) ==
    LET b == IF coord_crs # geographic_crs
             THEN transform_bounds(coord_crs, geographic_crs,
                                   xmin, ymin, xmax, ymax)
             ELSE <<xmin, ymin, xmax, ymax>>
        tl_tile == tms_tile(b[1], b[4], quadkey_zoom(def))
        br_tile == tms_tile(b[3], b[2], quadkey_zoom(def))
    IN  TileRange(tl_tile, br_tile, quadkey_zoom(def))

RECURSIVE get_assets_each(_, _, _)
\* [self.get_assets(*t) for t in tiles]: the lists, and the cache after
\* the calls
get_assets_each(def, c, ts) ==
    IF ts = <<>> THEN [lists |-> <<>>, cache |-> c]
    ELSE LET g == get_assets(def, c, ts[1].x, ts[1].y, ts[1].z)
             r == get_assets_each(def, g.cache, Tail(ts))
         IN  [lists |-> <<g.ret>> \o r.lists, cache |-> r.cache]

NoAssetFoundError == "NoAssetFoundError"

\* no exception
Returned == "returned"

assets_for_bbox_raising(def, c, xmin, ymin, xmax, ymax, coord_crs) ==
    LET ts == BboxTiles(def, xmin, ymin, xmax, ymax, coord_crs)
        r == get_assets_each(def, c, ts)
        ret == Dedupe(Flatten(r.lists))
    IN  [ret |-> ret, cache |-> r.cache, tiles |-> ts,
         raised |-> IF ret = <<>> THEN NoAssetFoundError ELSE Returned]

\* BaseBackend.assets_for_bbox: the list returned, the cache after the call
\* and the tiles get_assets was called for
assets_for_bbox(def, c, xmin, ymin, xmax, ymax, coord_crs) ==
    LET ts == BboxTiles(def, xmin, ymin, xmax, ymax, coord_crs)
        r == get_assets_each(def, c, ts)
    IN  [ret |-> Dedupe(Flatten(r.lists)), cache |-> r.cache, tiles |-> ts,
         raised |-> Returned]

tile_unchecked(def, c, x, y, z, reverse) ==
    LET g == get_assets(def, c, x, y, z)
    IN  [assets |-> g.ret, cache |-> g.cache, raised |-> Returned,
         reads |-> IF reverse THEN Reversed(g.ret) ELSE g.ret]

\* BaseBackend.tile up to its call of mosaic_reader: the candidate assets,
\* the exception raised and the list the per-asset reads are issued over
tile(def, c, x, y, z, reverse) ==
    LET g == get_assets(def, c, x, y, z)
    IN  IF g.ret = <<>>
        THEN [assets |-> g.ret, cache |-> g.cache,
              raised |-> NoAssetFoundError, reads |-> <<>>]
        ELSE [assets |-> g.ret, cache |-> g.cache, raised |-> Returned,
              reads |-> IF reverse THEN Reversed(g.ret) ELSE g.ret]

\* BaseBackend.point up to its call of multi_values: the candidate assets
\* (assets_for_point is called without coord_crs, so with its default), the
\* exception raised, the list the per-asset reads are issued over and the
\* coordinates each read is handed
point(def, c, lon, lat, reverse, coord_crs) ==
    LET g == assets_for_point(def, c, lon, lat, WGS84_CRS)
    IN  IF g.ret = <<>>
        THEN [assets |-> g.ret, cache |-> g.cache,
              raised |-> NoAssetFoundError, reads |-> <<>>,
              at |-> <<lon, lat>>]
        ELSE [assets |-> g.ret, cache |-> g.cache, raised |-> Returned,
              reads |-> IF reverse THEN Reversed(g.ret) ELSE g.ret,
              at |-> transform_point(lon, lat, coord_crs, geographic_crs)]

----------------------------------------------------------------------------
(* The per-asset reads of a point query: rio_tiler.tasks.multi_values *)

PointOutsideBounds == "PointOutsideBounds"

\* any exception of a read other than PointOutsideBounds
ReadError == "ReadError"

\* how the read of one asset ends: with a value or with an exception
Outcomes == {"value", PointOutsideBounds, ReadError}

\* the PointData the reader of an asset returns for the coordinates
PointData(asset, at) == [asset |-> asset, at |-> at]

\* the orders in which n reads running in the thread pool may complete
Orders(n) ==
    {o \in [1..n -> 1..n] : \A i, j \in 1..n : o[i] = o[j] => i = j}

\* the (asset, value) pairs of the tasks of the sequence ts that returned
Items(assets, outcome, at, ts) ==
    LET ok == SelectSeq(ts, LAMBDA i : outcome[assets[i]] = "value")
    IN  [k \in 1..Len(ok) |->
            <<assets[ok[k]], PointData(assets[ok[k]], at)>>]

multi_values_as_completed(assets, outcome, order, at, allowed_exceptions) ==
    IF \E i \in 1..Len(assets) :
          outcome[assets[i]] \notin {"value"} \cup allowed_exceptions
    THEN [raised |-> ReadError, ret |-> <<>>]
    ELSE [raised |-> Returned, ret |-> Items(assets, outcome, at, order)]

\* multi_values: one task per asset is submitted in the order of the list
\* and the tasks complete in the order `order`; filter_tasks then takes the
\* futures in the order of submission, waits for each, skips an allowed
\* exception and lets any other propagate
multi_values(assets, outcome, order, at, allowed_exceptions) ==
    LET raising == {i \in 1..Len(assets) :
                      outcome[assets[i]] \notin
                          {"value"} \cup allowed_exceptions}
    IN  IF raising # {}
        THEN [raised |-> outcome[assets[CHOOSE i \in raising :
                                           \A j \in raising : i <= j]],
              ret |-> <<>>]
        ELSE [raised |-> Returned,
              ret |-> Items(assets, outcome, at,
                            [i \in 1..Len(assets) |-> i])]

----------------------------------------------------------------------------
(* The states after construction and the inputs *)

\* the cell in the north-west corner of the grid
RectA == <<0, World - 1, 0, World - 1>>

\* a rectangle east of it that reaches over the middle of the grid
RectB == <<1, World - 2, World \div 2, World - 1>>

Features == {Feature("a", RectA), Feature("b", RectB)}

\* the feature lists handed to update: the empty one, one with a feature
\* that has no path, and the lists of one feature
FeatureLists ==
    {<<>>, <<Feature(None, RectA)>>} \cup {<<f>> : f \in Features}

\* a document as _read() returns it: version 0, one asset under the quadkey
\* of the north-west tile
Document(qz, minzoom) ==
    LET def == [version |-> 0, minzoom |-> minzoom, maxzoom |-> MaxQueryZoom,
                quadkey_zoom |-> qz, bounds |-> RectA,
                center |-> center_of(RectA, minzoom)]
        zoom == quadkey_zoom(def)
    IN  [version |-> 0, minzoom |-> minzoom, maxzoom |-> MaxQueryZoom,
         quadkey_zoom |-> qz, bounds |-> RectA,
         center |-> center_of(RectA, minzoom),
         tiles |-> (quadkey(Tile(0, 0, zoom)) :> <<"a">>)]

\* the documents the backend starts from: one indexed at its minzoom, 1 (it
\* has no quadkey_zoom), one with a quadkey_zoom of its own, 1
Documents == {Document(0, 1), Document(1, 0)}

\* the tiles handed to get_assets: the north-west tile of each zoom and its
\* eastern neighbour at zoom 1
QueryTiles == {Tile(0, 0, z) : z \in 0..MaxQueryZoom} \cup {Tile(1, 0, 1)}

Idle == [pc |-> "idle"]

\* __attrs_post_init__: the document is read; minzoom, maxzoom and bounds
\* are copied from it
Init ==
    /\ mosaic_def \in Documents
    /\ bounds = mosaic_def.bounds
    /\ cache = <<>>
    /\ stored = mosaic_def
    /\ last = [op |-> "init"]
    /\ upd = Idle
    /\ rd = Idle
    /\ fp = Idle

Here == Backend(mosaic_def, bounds, cache, stored)

Become(s) ==
    /\ mosaic_def' = s.mosaic_def
    /\ bounds' = s.bounds
    /\ cache' = s.cache
    /\ stored' = s.stored

----------------------------------------------------------------------------
(* Sequential use: every call runs to its end before the next one starts *)

\* update(features, add_first); last keeps the document, the bounds and the
\* stored document the call found (pre)
Update(features, add_first, write_ok) ==
    /\ mosaic_def.version < MaxVersion
    /\ \E r \in {update(Here, features, add_first, write_ok)} :
           /\ Become(r.s)
           /\ last' = [op |-> "update", outcome |-> r.outcome,
                       writes |-> r.writes, cand |-> r.cand,
                       pre |-> Backend(mosaic_def, bounds, <<>>, stored),
                       features |-> features, add_first |-> add_first]
    /\ UNCHANGED <<upd, rd, fp>>

\* get_assets(x, y, z)
GetAssets(x, y, z) ==
    /\ \E g \in {get_assets(mosaic_def, cache, x, y, z)} :
           /\ cache' = g.cache
           /\ last' = [op |-> "get_assets", x |-> x, y |-> y, z |-> z,
                       ret |-> g.ret, hit |-> g.hit, src |-> g.src]
    /\ UNCHANGED <<mosaic_def, bounds, stored, upd, rd, fp>>

\* the TTL of an entry runs out
Expire(i) ==
    /\ i \in 1..Len(cache)
    /\ cache' = Without(cache, i)
    /\ UNCHANGED <<mosaic_def, bounds, stored, last, upd, rd, fp>>

Next ==
    \/ \E features \in FeatureLists, add_first \in BOOLEAN,
          write_ok \in BOOLEAN :
          Update(features, add_first, write_ok)
    \/ \E t \in QueryTiles : GetAssets(t.x, t.y, t.z)
    \/ \E i \in 1..CacheMaxSize : Expire(i)

Spec == Init /\ [][Next]_vars

----------------------------------------------------------------------------
(* find_quadkeys on its own *)

QuadkeyInit ==
    /\ mosaic_def = Document(0, 0)
    /\ bounds = mosaic_def.bounds
    /\ cache = <<>>
    /\ stored = mosaic_def
    /\ \E z \in 0..MaxZoom, zoom \in 0..MaxZoom :
          \E t \in TilesAt(z) :
             last = [op |-> "args", tile |-> t, zoom |-> zoom, ret |-> <<>>]
    /\ upd = Idle
    /\ rd = Idle
    /\ fp = Idle

FindQuadkeys ==
    /\ last.op = "args"
    /\ last' = [last EXCEPT !.op = "find_quadkeys",
                            !.ret = find_quadkeys(last.tile, last.zoom)]
    /\ UNCHANGED <<mosaic_def, bounds, cache, stored, upd, rd, fp>>

QuadkeyNext == FindQuadkeys

QuadkeySpec == QuadkeyInit /\ [][QuadkeyNext]_vars

----------------------------------------------------------------------------
(* Properties of find_quadkeys *)

\* the ancestor of a tile at a zoom above it
Ancestor(t, zoom) ==
    Tile(t.x \div Pow2(t.z - zoom), t.y \div Pow2(t.z - zoom), zoom)

\* C2: for a tile below the quadkey zoom, find_quadkeys returns exactly one
\* key: the quadkey of the tile's ancestor at the quadkey zoom, which is the
\* tile's own quadkey cut to that zoom
C2_FinerTileResolvesToAncestor ==
    (last.op = "find_quadkeys" /\ last.tile.z > last.zoom) =>
        /\ Len(last.ret) = 1
        /\ last.ret[1] = quadkey(Ancestor(last.tile, last.zoom))
        /\ last.ret[1] = SubSeq(quadkey(last.tile), 1, last.zoom)

\* find_quadkeys has answered for a tile two or more zooms below the
\* quadkey zoom
C2_Witness ==
    /\ last.op = "find_quadkeys"
    /\ last.tile.z >= last.zoom + 2
    /\ last.ret # <<>>

RECURSIVE Pow4(_)
Pow4(n) == IF n = 0 THEN 1 ELSE 4 * Pow4(n - 1)

\* C3: for a tile above the quadkey zoom, find_quadkeys returns the keys of
\* the tiles of the quadkey zoom whose ancestor at the tile's zoom is the
\* tile: all of them, nothing else, none twice, 4^(zoom - z) keys in all
C3_CoarserTileResolvesToDescendants ==
    (last.op = "find_quadkeys" /\ last.tile.z < last.zoom) =>
        /\ Range(last.ret) =
               {quadkey(c) : c \in {d \in TilesAt(last.zoom) :
                                       Ancestor(d, last.tile.z) = last.tile}}
        /\ \A i, j \in 1..Len(last.ret) : i # j => last.ret[i] # last.ret[j]
        /\ Len(last.ret) = Pow4(last.zoom - last.tile.z)

\* find_quadkeys has answered for a tile two or more zooms above the
\* quadkey zoom
C3_Witness ==
    /\ last.op = "find_quadkeys"
    /\ last.tile.z + 2 <= last.zoom
    /\ Len(last.ret) >= 16

----------------------------------------------------------------------------
(* Properties of get_assets and update under sequential use *)

FirstIndex(s, e) ==
    CHOOSE i \in 1..Len(s) : s[i] = e /\ \A j \in 1..(i - 1) : s[j] # e

\* r holds the elements of c, each once, in the order of their first
\* occurrence in c
IsFirstOccurrenceOrder(r, c) ==
    /\ Range(r) = Range(c)
    /\ \A i, j \in 1..Len(r) :
          i < j => r[i] # r[j] /\ FirstIndex(c, r[i]) < FirstIndex(c, r[j])

\* the lists stored under the keys a tile resolves to, one after the other,
\* an absent key giving nothing
Concatenation(def, x, y, z) ==
    LET keys == find_quadkeys(Tile(x, y, z), quadkey_zoom(def))
    IN  Flatten([i \in 1..Len(keys) |->
                    IF keys[i] \in DOMAIN def.tiles
                    THEN def.tiles[keys[i]]
                    ELSE <<>>])

\* the list get_assets last returned is the one resolved from the current
\* document, an entry it was served from was resolved from the current
\* version of the document, and so is every entry the current document's
\* key leads to
C1_Coherent ==
    /\ last.op = "get_assets" =>
          /\ IsFirstOccurrenceOrder(
                 last.ret, Concatenation(mosaic_def, last.x, last.y, last.z))
          /\ last.hit => last.src = mosaic_def.version
    /\ \A i \in 1..Len(cache), t \in QueryTiles :
          cache[i].key = hashkey(mosaic_def, t.x, t.y, t.z) =>
              IsFirstOccurrenceOrder(
                  cache[i].val, Concatenation(mosaic_def, t.x, t.y, t.z))

\* a call of get_assets that follows a call for the same tile, with no
\* update in between, returns the same list
C1_Repeat ==
    (/\ last.op = "get_assets"
     /\ last'.op = "get_assets"
     /\ <<last'.x, last'.y, last'.z>> = <<last.x, last.y, last.z>>)
        => last'.ret = last.ret

\* C1: under sequential use get_assets always returns the list an uncached
\* resolution over the current document gives, never an entry cached before
\* an update, and the same list again when no update came in between
C1_CacheCoherence == []C1_Coherent /\ [][C1_Repeat]_vars

\* get_assets has answered from the cache after an update
C1_Witness ==
    /\ last.op = "get_assets"
    /\ last.hit
    /\ mosaic_def.version > 0
    /\ last.ret # <<>>

\* the last call was an update that got its candidate index
Updated == last.op = "update" /\ last.outcome # "invalid"

CandidateKeys == {last.cand.tiles[i][1] : i \in 1..Len(last.cand.tiles)}

\* the list stored under a key before the last update, none counting as
\* the empty list
Previous(k) ==
    IF k \in DOMAIN last.pre.mosaic_def.tiles
    THEN last.pre.mosaic_def.tiles[k]
    ELSE <<>>

\* C5: after an update, each key of the candidate index holds the new
\* assets followed by the previously stored ones (add_first) or the
\* previously stored ones followed by the new ones, and the other keys hold
\* what they held
C5_MergedLists ==
    Updated =>
        /\ DOMAIN mosaic_def.tiles =
               DOMAIN last.pre.mosaic_def.tiles \cup CandidateKeys
        /\ \A i \in 1..Len(last.cand.tiles) :
              LET k == last.cand.tiles[i][1]
                  new == last.cand.tiles[i][2]
              IN  mosaic_def.tiles[k] =
                      IF last.add_first THEN new \o Previous(k)
                      ELSE Previous(k) \o new
        /\ \A k \in DOMAIN last.pre.mosaic_def.tiles \ CandidateKeys :
              mosaic_def.tiles[k] = last.pre.mosaic_def.tiles[k]

Least(a, b) == CHOOSE m \in {a, b} : m <= a /\ m <= b

Greatest(a, b) == CHOOSE m \in {a, b} : m >= a /\ m >= b

ValidRectangle(b) == b[1] <= b[3] /\ b[2] <= b[4]

\* rectangle b contains rectangle c
Contains(b, c) ==
    b[1] <= c[1] /\ b[2] <= c[2] /\ b[3] >= c[3] /\ b[4] >= c[4]

\* C6: after an update the document's bounds are the component-wise union
\* of the bounds before it and the candidate's bounds and contain both; the
\* bounds never shrink and are always a valid rectangle
C6_BoundsUnion ==
    /\ ValidRectangle(mosaic_def.bounds)
    /\ last.op = "update" =>
          Contains(mosaic_def.bounds, last.pre.mosaic_def.bounds)
    /\ Updated =>
          LET p == last.pre.mosaic_def.bounds
              c == last.cand.bounds
          IN  /\ mosaic_def.bounds =
                     <<Least(p[1], c[1]), Least(p[2], c[2]),
                       Greatest(p[3], c[3]), Greatest(p[4], c[4])>>
              /\ Contains(mosaic_def.bounds, p)
              /\ Contains(mosaic_def.bounds, c)

\* an update has widened the bounds beyond both the old bounds and the
\* candidate's
C6_Witness ==
    /\ Updated
    /\ mosaic_def.bounds # last.pre.mosaic_def.bounds
    /\ mosaic_def.bounds # last.cand.bounds
    /\ mosaic_def.version = 2

\* the feature list cannot be reduced to a candidate index
Irreducible(features) ==
    features = <<>> \/ \E i \in 1..Len(features) : features[i].path = None

\* C8: an update whose features cannot be reduced to a candidate index ends
\* in the failure, leaves the document (tiles, bounds, center, version), the
\* backend's bounds and the stored document as they were, and calls write
\* not once
C8_InvalidUpdateChangesNothing ==
    (last.op = "update" /\ Irreducible(last.features)) =>
        /\ last.outcome = "invalid"
        /\ mosaic_def = last.pre.mosaic_def
        /\ bounds = last.pre.bounds
        /\ stored = last.pre.stored
        /\ last.writes = 0

\* an update of a document that was updated before has failed on an empty
\* feature list
C8_Witness ==
    /\ last.op = "update"
    /\ last.features = <<>>
    /\ last.outcome = "invalid"
    /\ mosaic_def.version > 0

----------------------------------------------------------------------------
(* The queries on a document that is not updated *)

\* the quadkeys of the two tiles in the north-west corner of zoom 2
KeyNW == quadkey(Tile(0, 0, 2))

KeyNE == quadkey(Tile(1, 0, 2))

QueryLists == {<<"a", "b">>, <<"a", "c">>}

\* documents indexed at quadkey zoom 2, each of the two keys absent or
\* holding one of the lists
ListDocuments ==
    {[Document(2, 0) EXCEPT !.tiles = [k \in ks |-> f[k]]] :
        f \in [{KeyNW, KeyNE} -> QueryLists], ks \in SUBSET {KeyNW, KeyNE}}

\* a document holding one asset of its own under each of the four
\* north-west keys of zoom 2
GridDocument ==
    [Document(2, 0) EXCEPT !.tiles =
        [k \in {quadkey(Tile(x, y, 2)) : x, y \in 0..1} |->
            LET t == quadkey_to_tile(k)
            IN  <<<<"a", "b", "c", "d">>[2 * t.x + t.y + 1]>>]]

QueryDocuments == ListDocuments \cup {GridDocument}

\* the side of a tile of zoom 2, in cells
Side == Pow2(GridZoom - 2)

\* the coordinates handed to the point and bbox queries: the south-west
\* corners of the four north-west tiles of zoom 2
Lons == {0, Side}

Lats == {World - 1, World - 1 - Side}

QueryInit ==
    /\ mosaic_def \in QueryDocuments
    /\ bounds = mosaic_def.bounds
    /\ cache = <<>>
    /\ stored = mosaic_def
    /\ last = [op |-> "init"]
    /\ upd = Idle
    /\ rd = Idle
    /\ fp = Idle

\* tile(x, y, z, reverse)
TileQuery(x, y, z, reverse) ==
    /\ \E r \in {tile(mosaic_def, cache, x, y, z, reverse)} :
           /\ cache' = r.cache
           /\ last' = [op |-> "tile", x |-> x, y |-> y, z |-> z,
                       reverse |-> reverse, assets |-> r.assets,
                       raised |-> r.raised, reads |-> r.reads]
    /\ UNCHANGED <<mosaic_def, bounds, stored, upd, rd, fp>>

\* point(lon, lat, reverse, coord_crs): raised is what point raises before
\* it reads, outcome and order how the reads of the assets end and in which
\* order they complete, ended and ret the exception or the list point ends
\* with (allowed_exceptions is left at its default); outcomes are the ways
\* the read of an asset may end
PointQuery(lon, lat, reverse, coord_crs, outcomes) ==
    /\ \E r \in {point(mosaic_def, cache, lon, lat, reverse, coord_crs)} :
           \E outcome \in [Range(r.reads) -> outcomes],
              order \in Orders(Len(r.reads)) :
              \E v \in {IF r.raised = NoAssetFoundError
                        THEN [raised |-> r.raised, ret |-> <<>>]
                        ELSE multi_values(r.reads, outcome, order, r.at,
                                          {PointOutsideBounds})} :
                  /\ cache' = r.cache
                  /\ last' = [op |-> "point", lon |-> lon, lat |-> lat,
                              reverse |-> reverse, coord_crs |-> coord_crs,
                              assets |-> r.assets, raised |-> r.raised,
                              reads |-> r.reads, at |-> r.at,
                              outcome |-> outcome, order |-> order,
                              ended |-> v.raised, ret |-> v.ret]
    /\ UNCHANGED <<mosaic_def, bounds, stored, upd, rd, fp>>

\* assets_for_bbox(xmin, ymin, xmax, ymax, coord_crs)
BboxQuery(xmin, ymin, xmax, ymax, coord_crs) ==
    /\ xmin <= xmax
    /\ ymin <= ymax
    /\ \E r \in {assets_for_bbox(mosaic_def, cache, xmin, ymin, xmax, ymax,
                                  coord_crs)} :
           /\ cache' = r.cache
           /\ last' = [op |-> "assets_for_bbox",
                       bbox |-> <<xmin, ymin, xmax, ymax>>,
                       coord_crs |-> coord_crs, tiles |-> r.tiles,
                       ret |-> r.ret, raised |-> r.raised]
    /\ UNCHANGED <<mosaic_def, bounds, stored, upd, rd, fp>>

QueryNext ==
    \/ \E t \in QueryTiles : GetAssets(t.x, t.y, t.z)
    \/ \E t \in QueryTiles, reverse \in BOOLEAN :
          TileQuery(t.x, t.y, t.z, reverse)
    \/ \E lon \in Lons, lat \in Lats, reverse \in BOOLEAN, crs \in CRSs :
          PointQuery(lon, lat, reverse, crs, {"value"})
    \/ \E xmin \in Lons, xmax \in Lons, ymin \in Lats, ymax \in Lats,
          crs \in CRSs :
          BboxQuery(xmin, ymin, xmax, ymax, crs)
    \/ \E i \in 1..CacheMaxSize : Expire(i)

QuerySpec == QueryInit /\ [][QueryNext]_vars

\* the point queries alone, the reads of the assets ending in every way
PointNext ==
    \/ \E lon \in Lons, lat \in Lats, reverse \in BOOLEAN, crs \in CRSs :
          PointQuery(lon, lat, reverse, crs, Outcomes)
    \/ \E i \in 1..CacheMaxSize : Expire(i)

PointSpec == QueryInit /\ [][PointNext]_vars

----------------------------------------------------------------------------
(* update statement by statement, with readers running between its        *)
(* statements: update takes no lock, a thread may be scheduled between    *)
(* any two statements                                                     *)

MaxConcVersion == 1

\* BaseBackend.info(quadkeys=True); quadkeys as the set of the keys
info(def) ==
    [bounds |-> def.bounds, center |-> def.center, maxzoom |-> def.maxzoom,
     minzoom |-> def.minzoom, quadkeys |-> DOMAIN def.tiles]

\* lines 99-106: the candidate index is built; from here on upd holds the
\* locals of the call (cand, the candidate index, and pre and post, the
\* documents before and after the whole update, are kept for the properties
\* only)
UpdateBegin(features, add_first) ==
    /\ upd.pc = "idle"
    /\ mosaic_def.version < MaxConcVersion
    /\ \E cand \in {from_features(features, mosaic_def.minzoom,
                                    mosaic_def.maxzoom,
                                    quadkey_zoom(mosaic_def))} :
           IF ~cand.ok
           THEN /\ upd' = upd
                /\ last' = [op |-> "update", outcome |-> "invalid"]
           ELSE /\ upd' = [pc |-> "merge", items |-> cand.tiles,
                           add_first |-> add_first,
                           new_bounds |-> cand.bounds,
                           cand |-> cand, pre |-> mosaic_def,
                           post |-> update_apply(Here, cand, add_first,
                                                 TRUE).mosaic_def]
                /\ last' = [op |-> "update", outcome |-> "begun"]
    /\ UNCHANGED <<mosaic_def, bounds, cache, stored, rd, fp>>

\* lines 108-114: one turn of the loop
UpdateMerge ==
    /\ upd.pc = "merge"
    /\ upd.items # <<>>
    /\ \E s \in {update_merge(Here, Head(upd.items), upd.add_first)} :
           /\ mosaic_def' = s.mosaic_def
           /\ cache' = s.cache
    /\ upd' = [upd EXCEPT !.items = Tail(@)]
    /\ UNCHANGED <<bounds, stored, last, rd, fp>>

\* lines 116-118: the union of the bounds is taken and the version increased
UpdateVersion ==
    /\ upd.pc = "merge"
    /\ upd.items = <<>>
    /\ upd' = [upd EXCEPT !.pc = "bounds",
                          !.new_bounds = bbox_union(@, mosaic_def.bounds)]
    /\ mosaic_def' = update_version(Here).mosaic_def
    /\ UNCHANGED <<bounds, cache, stored, last, rd, fp>>

\* line 119
UpdateBounds ==
    /\ upd.pc = "bounds"
    /\ mosaic_def' = update_bounds(Here, upd.new_bounds).mosaic_def
    /\ upd' = [upd EXCEPT !.pc = "center"]
    /\ UNCHANGED <<bounds, cache, stored, last, rd, fp>>

\* lines 120-124
UpdateCenter ==
    /\ upd.pc = "center"
    /\ mosaic_def' = update_center(Here, upd.new_bounds).mosaic_def
    /\ upd' = [upd EXCEPT !.pc = "self_bounds"]
    /\ UNCHANGED <<bounds, cache, stored, last, rd, fp>>

\* line 125
UpdateSelfBounds ==
    /\ upd.pc = "self_bounds"
    /\ bounds' = update_self_bounds(Here, upd.new_bounds).bounds
    /\ upd' = [upd EXCEPT !.pc = "write"]
    /\ UNCHANGED <<mosaic_def, cache, stored, last, rd, fp>>

\* line 126
UpdateWrite(write_ok) ==
    /\ upd.pc = "write"
    /\ stored' = update_write(Here, write_ok).stored
    /\ upd' = Idle
    /\ last' = [op |-> "update",
                outcome |-> IF write_ok THEN "ok" ELSE "write_failed"]
    /\ UNCHANGED <<mosaic_def, bounds, cache, rd, fp>>

\* a reader calls info(); before and after are what info() gives on the
\* documents before and after the update in progress, if there is one (kept
\* for the properties only)
Info ==
    /\ last' = [op |-> "info", info |-> info(mosaic_def),
                before |-> info(IF upd.pc = "idle" THEN mosaic_def
                                ELSE upd.pre),
                after |-> info(IF upd.pc = "idle" THEN mosaic_def
                               ELSE upd.post),
                during |-> upd.pc]
    /\ UNCHANGED <<mosaic_def, bounds, cache, stored, upd, rd, fp>>

\* the tiles the other thread asks get_assets for
ReaderTiles == {Tile(0, 0, 1), Tile(1, 0, 1)}

\* get_assets in another thread, as cachetools.cached runs it without a
\* lock: first the key is computed from the arguments and the fingerprint
\* of the document
ReaderKey(x, y, z) ==
    /\ rd.pc = "idle"
    /\ rd' = [pc |-> "lookup", x |-> x, y |-> y, z |-> z,
              key |-> hashkey(mosaic_def, x, y, z)]
    /\ UNCHANGED <<mosaic_def, bounds, cache, stored, last, upd, fp>>

\* then the cache is asked for the key: an entry found is returned
ReaderLookup ==
    /\ rd.pc = "lookup"
    /\ \E i \in {CacheIndex(cache, rd.key)} :
          IF i # 0
          THEN /\ cache' = Append(Without(cache, i), cache[i])
               /\ last' = [op |-> "get_assets", x |-> rd.x, y |-> rd.y,
                           z |-> rd.z, key |-> rd.key, ret |-> cache[i].val,
                           hit |-> TRUE, src |-> cache[i].src]
               /\ rd' = Idle
          ELSE /\ rd' = [rd EXCEPT !.pc = "body"]
               /\ UNCHANGED <<cache, last, fp>>
    /\ UNCHANGED <<mosaic_def, bounds, stored, upd, fp>>

\* on a miss the body runs on the document as it is by then, and its result
\* is stored under the key computed at the start, in place of an entry
\* another call has stored under it meanwhile
ReaderBody ==
    /\ rd.pc = "body"
    /\ \E v \in {get_assets_body(mosaic_def, rd.x, rd.y, rd.z)},
          i \in {CacheIndex(cache, rd.key)} :
          /\ cache' = CachePut(IF i # 0 THEN Without(cache, i) ELSE cache,
                               [key |-> rd.key, val |-> v,
                                src |-> mosaic_def.version])
          /\ last' = [op |-> "get_assets", x |-> rd.x, y |-> rd.y,
                      z |-> rd.z, key |-> rd.key, ret |-> v, hit |-> FALSE,
                      src |-> mosaic_def.version]
    /\ rd' = Idle
    /\ UNCHANGED <<mosaic_def, bounds, stored, upd, fp>>

ConcNext ==
    \/ \E features \in FeatureLists, add_first \in BOOLEAN :
          UpdateBegin(features, add_first)
    \/ UpdateMerge
    \/ UpdateVersion
    \/ UpdateBounds
    \/ UpdateCenter
    \/ UpdateSelfBounds
    \/ \E write_ok \in BOOLEAN : UpdateWrite(write_ok)
    \/ Info
    \/ \E t \in ReaderTiles : ReaderKey(t.x, t.y, t.z)
    \/ ReaderLookup
    \/ ReaderBody

\* the calls interleaved here take less than the cache's TTL: entries leave
\* the cache by its size only
ConcSpec == Init /\ [][ConcNext]_vars

----------------------------------------------------------------------------
(* utils.get_footprints *)

Datasets == {"a", "b"}

RECURSIVE ListsUpTo(_)
\* the dataset lists of at most n paths
ListsUpTo(n) ==
    IF n = 0 THEN {<<>>}
    ELSE LET shorter == ListsUpTo(n - 1)
         IN  shorter \cup {Append(l, d) : l \in shorter, d \in Datasets}

\* get_dataset_info(src_path): the feature of a dataset
get_dataset_info(src_path) == [type |-> "Feature", path |-> src_path]

filter_futures_as_completed(tasks, failed, completed) ==
    LET ok == SelectSeq(completed, LAMBDA i : i \notin failed)
    IN  [k \in 1..Len(ok) |-> get_dataset_info(tasks[ok[k]])]

\* _filter_futures: the futures are taken in the order of the list
\* whatever the order they completed in, and the result of each is yielded
\* unless it raised
filter_futures(tasks, failed, completed) ==
    LET ok == SelectSeq([i \in 1..Len(tasks) |-> i],
                        LAMBDA i : i \notin failed)
    IN  [k \in 1..Len(ok) |-> get_dataset_info(tasks[ok[k]])]

\* lines 105-110: get_footprints submits one task per dataset to a pool of
\* max_threads workers
Submit(dataset_list, max_threads) ==
    /\ fp.pc = "idle"
    /\ fp' = [pc |-> "submitted", future_work |-> dataset_list,
              max_threads |-> max_threads, running |-> {}, failed |-> {},
              completed |-> <<>>, ret |-> <<>>]
    /\ UNCHANGED <<mosaic_def, bounds, cache, stored, last, upd, rd>>

\* the tasks started and not yet finished
Started == fp.running \cup Range(fp.completed)

\* a free worker takes the next task of the queue
TaskStart ==
    /\ fp.pc = "submitted"
    /\ Cardinality(fp.running) < fp.max_threads
    /\ Cardinality(Started) < Len(fp.future_work)
    /\ fp' = [fp EXCEPT !.running = @ \cup {Cardinality(Started) + 1}]
    /\ UNCHANGED <<mosaic_def, bounds, cache, stored, last, upd, rd>>

\* get_dataset_info returns or raises in a worker
TaskFinish(i, ok) ==
    /\ fp.pc = "submitted"
    /\ i \in fp.running
    /\ fp' = [fp EXCEPT !.running = @ \ {i},
                        !.completed = Append(@, i),
                        !.failed = IF ok THEN @ ELSE @ \cup {i}]
    /\ UNCHANGED <<mosaic_def, bounds, cache, stored, last, upd, rd>>

\* lines 111-122: the loop over as_completed ends and the executor shuts
\* down when every future is done; then the results are filtered
Return ==
    /\ fp.pc = "submitted"
    /\ Len(fp.completed) = Len(fp.future_work)
    /\ fp' = [fp EXCEPT !.pc = "returned",
                        !.ret = filter_futures(fp.future_work, fp.failed,
                                               fp.completed)]
    /\ UNCHANGED <<mosaic_def, bounds, cache, stored, last, upd, rd>>

FootprintNext ==
    \/ \E dataset_list \in ListsUpTo(MaxDatasets),
          max_threads \in 1..MaxThreads :
          Submit(dataset_list, max_threads)
    \/ TaskStart
    \/ \E i \in 1..MaxDatasets, ok \in BOOLEAN : TaskFinish(i, ok)
    \/ Return

FootprintSpec == Init /\ [][FootprintNext]_vars

----------------------------------------------------------------------------
(* The queries of QuerySpec *)

\* the lists stored under the keys of the tiles a bbox covers, tile after
\* tile in the order the tiles are asked for
BboxConcatenation(def, b, coord_crs) ==
    LET ts == BboxTiles(def, b[1], b[2], b[3], b[4], coord_crs)
    IN  Flatten([i \in 1..Len(ts) |->
                    Concatenation(def, ts[i].x, ts[i].y, ts[i].z)])

HasDuplicate(c) == \E i, j \in 1..Len(c) : i # j /\ c[i] = c[j]

\* C4: the list get_assets returns, and the list assets_for_bbox returns,
\* holds every asset stored under the resolved keys exactly once, in the
\* order of the assets' first occurrence in the concatenation of the keys'
\* lists taken in key-resolution order; a key absent from the index
\* contributes nothing.
C4_FirstOccurrenceOrder ==
    /\ last.op = "get_assets" =>
          IsFirstOccurrenceOrder(
              last.ret, Concatenation(mosaic_def, last.x, last.y, last.z))
    /\ last.op = "assets_for_bbox" =>
          IsFirstOccurrenceOrder(
              last.ret, BboxConcatenation(mosaic_def, last.bbox,
                                          last.coord_crs))

\* get_assets resolved a tile to keys of which some are absent and two hold
\* the same asset, which is not the first of the second list
C4_Witness ==
    /\ last.op = "get_assets"
    /\ Concatenation(mosaic_def, last.x, last.y, last.z)
          = <<"a", "b", "a", "c">>
    /\ last.ret = <<"a", "b", "c">>
    /\ \E k \in Range(find_quadkeys(Tile(last.x, last.y, last.z),
                                    quadkey_zoom(mosaic_def))) :
          k \notin DOMAIN mosaic_def.tiles

\* s is r read backwards
IsReverse(s, r) ==
    /\ Len(s) = Len(r)
    /\ \A i \in 1..Len(r) : s[i] = r[Len(r) + 1 - i]

\* C9: a tile or point query whose candidate list is empty raises
\* NoAssetFoundError and issues no per-asset read; a query whose candidate
\* list is not empty issues its per-asset reads over exactly that list, in
\* the stored order, or in the reverse order when reverse is set.
C9_EmptyRaisesElseReadsInOrder ==
    /\ last.op = "tile" =>
          last.assets = get_assets_body(mosaic_def, last.x, last.y, last.z)
    /\ last.op \in {"tile", "point"} =>
          IF last.assets = <<>>
          THEN last.raised = NoAssetFoundError /\ last.reads = <<>>
          ELSE /\ last.raised = Returned
               /\ IF last.reverse
                  THEN IsReverse(last.reads, last.assets)
                  ELSE last.reads = last.assets

\* a tile query has raised for want of assets, without a read, on a document
\* that holds assets elsewhere
C9_Witness ==
    /\ last.op = "tile"
    /\ mosaic_def.tiles # <<>>
    /\ last.assets = <<>>
    /\ last.raised = NoAssetFoundError
    /\ last.reads = <<>>

\* no asset is stored under the keys of the tiles the bbox covers
NoCandidates ==
    /\ last.op = "assets_for_bbox"
    /\ BboxConcatenation(mosaic_def, last.bbox, last.coord_crs) = <<>>

\* C10 as stated: a bbox query that resolves to no candidate asset fails
\* with NoAssetFoundError instead of returning an empty result.
C10_EmptyBboxRaises == NoCandidates => last.raised = NoAssetFoundError

\* C10: a bbox query never raises NoAssetFoundError; one that resolves to no
\* candidate asset returns the empty list.
C10_EmptyBboxReturnsEmptyList ==
    /\ last.op = "assets_for_bbox" => last.raised = Returned
    /\ NoCandidates => last.ret = <<>>

\* a bbox query over tiles without assets has returned, on a document that
\* holds assets elsewhere
C10_Witness ==
    /\ NoCandidates
    /\ mosaic_def.tiles # <<>>
    /\ last.raised = Returned
    /\ last.ret = <<>>

----------------------------------------------------------------------------
(* The readers of ConcSpec *)

\* C7: a reader running concurrently with update never observes a document
\* in which some of the merged tile lists, the version, the bounds and the
\* center are already updated and others are not: what info() shows is what
\* it shows on the document before the update or on the document after it.
C7_NoPartialUpdateObserved ==
    last.op = "info" => last.info \in {last.before, last.after}

----------------------------------------------------------------------------
(* The point queries of PointSpec *)

\* the last call was a point query that read assets, and the read of every
\* one of them ended with PointOutsideBounds
AllOutside ==
    /\ last.op = "point"
    /\ last.reads # <<>>
    /\ \A a \in Range(last.reads) : last.outcome[a] = PointOutsideBounds

\* C11: a point query in which the read of every candidate asset fails with
\* PointOutsideBounds ends in NoAssetFoundError, not in a returned empty
\* list.
C11_AllOutsideRaises == AllOutside => last.ended = NoAssetFoundError

\* C12: for every coord_crs a point query takes its candidate assets from
\* the tile holding the point transformed from coord_crs to the geographic
\* CRS, as assets_for_point with that coord_crs does, and the coordinates
\* handed to the readers are the point transformed once.
C12_PointResolvesInCoordCrs ==
    last.op = "point" =>
        /\ last.assets = assets_for_point(mosaic_def, <<>>, last.lon,
                                          last.lat, last.coord_crs).ret
        /\ last.reads # <<>> =>
              last.at = transform_point(last.lon, last.lat, last.coord_crs,
                                        geographic_crs)

\* the reads of the last point query ended with values or PointOutsideBounds
NoReadError ==
    /\ last.op = "point"
    /\ last.reads # <<>>
    /\ \A a \in Range(last.reads) : last.outcome[a] # ReadError

\* C13: a point query whose reads end with values or PointOutsideBounds
\* returns; its result holds one (asset, value) pair for each candidate
\* asset whose read returned and none for the others, in the order of the
\* candidate list (reversed when reverse is set), in whatever order the
\* reads completed.
C13_PointResultInAssetOrder ==
    NoReadError =>
        /\ last.ended = Returned
        /\ IF last.reverse THEN IsReverse(last.reads, last.assets)
           ELSE last.reads = last.assets
        /\ \A k \in 1..Len(last.ret) :
              /\ last.ret[k][1] \in Range(last.reads)
              /\ last.outcome[last.ret[k][1]] = "value"
              /\ last.ret[k][2] = PointData(last.ret[k][1], last.at)
        /\ \A a \in Range(last.reads) :
              last.outcome[a] = "value" =>
                  Cardinality({k \in 1..Len(last.ret) :
                                  last.ret[k][1] = a}) = 1
        /\ \A k, l \in 1..Len(last.ret) :
              k < l => FirstIndex(last.reads, last.ret[k][1])
                           < FirstIndex(last.reads, last.ret[l][1])

\* a reversed point query over two assets whose second read completed
\* first, one read ending outside the asset's bounds, has returned the
\* other's value
C13_Witness ==
    /\ NoReadError
    /\ last.reverse
    /\ Len(last.reads) = 2
    /\ last.order = <<2, 1>>
    /\ last.outcome[last.reads[1]] = PointOutsideBounds
    /\ last.ended = Returned
    /\ Len(last.ret) = 1
    /\ last.ret[1][1] = last.reads[2]

----------------------------------------------------------------------------
(* The updates of Spec, continued *)

\* how often e occurs in s
Occurrences(s, e) == Cardinality({i \in 1..Len(s) : s[i] = e})

\* C14: update removes no duplicate when it merges: after an update every
\* key of the candidate index holds each asset as often as the new list and
\* the list stored before hold it together.
C14_NoDeduplicationAtMerge ==
    Updated =>
        \A i \in 1..Len(last.cand.tiles) :
            LET k == last.cand.tiles[i][1]
                new == last.cand.tiles[i][2]
            IN  /\ Len(mosaic_def.tiles[k]) = Len(new) + Len(Previous(k))
                /\ \A a \in Range(new) \cup Range(Previous(k)) :
                      Occurrences(mosaic_def.tiles[k], a) =
                          Occurrences(new, a) + Occurrences(Previous(k), a)

\* an update that got its candidate index leaves the version one above the
\* version it found, and with it another fingerprint
C16_IncreasedOnce ==
    Updated =>
        /\ mosaic_def.version = last.pre.mosaic_def.version + 1
        /\ mosaicid(mosaic_def) # mosaicid(last.pre.mosaic_def)

\* no step lowers the version, and a step that changes the document raises
\* it
C16_Increasing ==
    /\ mosaic_def'.version >= mosaic_def.version
    /\ mosaic_def' # mosaic_def => mosaic_def'.version > mosaic_def.version

\* C16: every successful update increases the document's version exactly
\* once; over a sequence of updates the version is strictly increasing, and
\* no two documents produced by successive updates share a version or a
\* fingerprint.
C16_VersionStrictlyIncreasing ==
    []C16_IncreasedOnce /\ [][C16_Increasing]_vars

\* a second successful update has raised the version from 1 to 2
C16_Witness ==
    /\ Updated
    /\ last.outcome = "ok"
    /\ last.pre.mosaic_def.version = 1
    /\ mosaic_def.version = 2

\* the last call was an update whose write failed
WriteFailed == last.op = "update" /\ last.outcome = "write_failed"

\* after an update whose write failed, write was called once, the storage
\* holds what it held, and the document in memory has the increased
\* version, the union of the bounds, the center of these and the new assets
\* under the candidate's keys; and get_assets answers from the document in
\* memory while it differs from the stored one
C19_Kept ==
    /\ WriteFailed =>
          /\ last.writes = 1
          /\ stored = last.pre.stored
          /\ mosaic_def # stored
          /\ mosaic_def.version = last.pre.mosaic_def.version + 1
          /\ Contains(mosaic_def.bounds, last.cand.bounds)
          /\ Contains(mosaic_def.bounds, last.pre.mosaic_def.bounds)
          /\ bounds = mosaic_def.bounds
          /\ mosaic_def.center =
                 <<mosaic_def.bounds[1] + mosaic_def.bounds[3],
                   mosaic_def.bounds[2] + mosaic_def.bounds[4],
                   mosaic_def.minzoom>>
          /\ \A i \in 1..Len(last.cand.tiles) :
                /\ last.cand.tiles[i][1] \in DOMAIN mosaic_def.tiles
                /\ Range(last.cand.tiles[i][2]) \subseteq
                       Range(mosaic_def.tiles[last.cand.tiles[i][1]])
    /\ (last.op = "get_assets" /\ mosaic_def # stored) =>
          IsFirstOccurrenceOrder(
              last.ret, Concatenation(mosaic_def, last.x, last.y, last.z))

\* the document in memory keeps differing from the stored one until another
\* update is called
C19_Lasting ==
    (mosaic_def # stored /\ last'.op # "update") => mosaic_def' # stored'

\* C19: when write fails during update there is no retry and no rollback:
\* the document in memory keeps the merged tiles, the increased version, the
\* new bounds and center, from then on differs from the stored document,
\* and get_assets answers from the merge that was not stored.
C19_WriteFailureKeepsMerge == []C19_Kept /\ [][C19_Lasting]_vars

\* after a failed write get_assets has returned a list the stored document
\* does not give
C19_Witness ==
    /\ last.op = "get_assets"
    /\ mosaic_def.version > stored.version
    /\ last.ret # get_assets_body(stored, last.x, last.y, last.z)

----------------------------------------------------------------------------
(* The bbox queries of QuerySpec, continued *)

\* the bbox of the last query in the geographic reference system
GeographicBbox ==
    IF last.coord_crs # geographic_crs
    THEN transform_bounds(last.coord_crs, geographic_crs, last.bbox[1],
                          last.bbox[2], last.bbox[3], last.bbox[4])
    ELSE last.bbox

\* the tiles of the quadkey zoom between the tile holding the bbox's
\* top-left corner and the tile holding its bottom-right corner
Rectangle ==
    LET zoom == quadkey_zoom(mosaic_def)
        tl == tms_tile(GeographicBbox[1], GeographicBbox[4], zoom)
        br == tms_tile(GeographicBbox[3], GeographicBbox[2], zoom)
    IN  {Tile(x, y, zoom) : x \in tl.x..br.x, y \in tl.y..br.y}

\* the list stored under the key of a tile of the quadkey zoom
StoredAt(t) == tiles_get(mosaic_def.tiles, quadkey(t))

\* C18: assets_for_bbox calls get_assets for every tile of the inclusive
\* rectangle of tiles between the tile of the bbox's top-left corner and the
\* tile of its bottom-right corner, each once, column after column and
\* north to south within a column, and returns the assets of their lists in
\* first-seen order; when the tiles hold pairwise different single assets
\* the result is these assets in the order of the scan.
C18_BboxScansRectangle ==
    last.op = "assets_for_bbox" =>
        /\ Range(last.tiles) = Rectangle
        /\ Len(last.tiles) = Cardinality(Rectangle)
        /\ \A i, j \in 1..Len(last.tiles) :
              i < j => \/ last.tiles[i].x < last.tiles[j].x
                       \/ /\ last.tiles[i].x = last.tiles[j].x
                          /\ last.tiles[i].y < last.tiles[j].y
        /\ IsFirstOccurrenceOrder(
               last.ret,
               Flatten([i \in 1..Len(last.tiles) |-> StoredAt(last.tiles[i])]))
        /\ (/\ \A t \in Rectangle : Len(StoredAt(t)) = 1
            /\ \A t, u \in Rectangle : t # u => StoredAt(t) # StoredAt(u)) =>
              last.ret = [i \in 1..Len(last.tiles) |->
                             StoredAt(last.tiles[i])[1]]

\* a bbox over two columns and two rows of tiles, each holding an asset of
\* its own, has returned the four assets
C18_Witness ==
    /\ last.op = "assets_for_bbox"
    /\ Cardinality(Rectangle) = 4
    /\ Len(last.tiles) = 4
    /\ \A t \in Rectangle : Len(StoredAt(t)) = 1
    /\ last.ret = <<"a", "b", "c", "d">>

\* the document whose fingerprint a cache key carries (the fingerprint
\* stands for the document's fields)
Fingerprinted(key) == key[5]

\* the entry holds the list resolved, for its key's tile, from the document
\* whose fingerprint its key carries
ResolvedFromOwnDocument(entry) ==
    entry.val = get_assets_body(Fingerprinted(entry.key), entry.key[2],
                                entry.key[3], entry.key[4])

\* C15: every cache entry holds the list resolved from the document whose
\* fingerprint its key carries, and get_assets returns under a key only the
\* list resolved from that document, also while update runs in another
\* thread.
C15_EntriesResolvedFromKeyDocument ==
    /\ \A i \in 1..Len(cache) : ResolvedFromOwnDocument(cache[i])
    /\ (last.op = "get_assets") =>
          last.ret = get_assets_body(Fingerprinted(last.key), last.x,
                                     last.y, last.z)

\* the document holds, under every key of the candidate index of the
\* running update, a list that begins (add_first) or ends with the new
\* assets, the version one above the one the update found, the union of the
\* bounds the update found and the candidate's, and the midpoint of these
\* bounds (in half cells) at minzoom as the center
AllSet ==
    /\ \A i \in 1..Len(upd.cand.tiles) :
          LET k == upd.cand.tiles[i][1]
              new == upd.cand.tiles[i][2]
              l == tiles_get(mosaic_def.tiles, k)
          IN  /\ Len(l) >= Len(new)
              /\ IF upd.add_first THEN SubSeq(l, 1, Len(new)) = new
                 ELSE SubSeq(l, Len(l) - Len(new) + 1, Len(l)) = new
    /\ mosaic_def.version = upd.pre.version + 1
    /\ mosaic_def.bounds =
           <<Least(upd.pre.bounds[1], upd.cand.bounds[1]),
             Least(upd.pre.bounds[2], upd.cand.bounds[2]),
             Greatest(upd.pre.bounds[3], upd.cand.bounds[3]),
             Greatest(upd.pre.bounds[4], upd.cand.bounds[4])>>
    /\ mosaic_def.center =
           <<mosaic_def.bounds[1] + mosaic_def.bounds[3],
             mosaic_def.bounds[2] + mosaic_def.bounds[4], mosaic_def.minzoom>>

\* an update ends only with its call of write, which is its last statement;
\* the stored document changes only in that step, when all is set, and
\* becomes the document in memory
C17_WriteStep ==
    /\ (upd.pc # "idle" /\ upd'.pc = "idle") => upd.pc = "write"
    /\ upd.pc = "write" => (upd'.pc \in {"write", "idle"} /\ AllSet)
    /\ stored' # stored =>
          /\ upd.pc = "write"
          /\ upd'.pc = "idle"
          /\ AllSet
          /\ mosaic_def' = mosaic_def
          /\ stored' = mosaic_def

\* C17: in every successful update write is called once, after all merged
\* lists, the version, the bounds and the center (the midpoint of the new
\* bounds, at minzoom) have been set; the document handed to write is the
\* final document in memory, and no partially merged document is stored.
C17_WriteOnceAfterAllSet == [][C17_WriteStep]_vars

\* an update that added a key has ended with its write, and the storage
\* holds the document in memory
C17_Witness ==
    /\ last.op = "update"
    /\ last.outcome = "ok"
    /\ upd.pc = "idle"
    /\ stored = mosaic_def
    /\ stored.version = 1
    /\ Cardinality(DOMAIN stored.tiles) = 2

----------------------------------------------------------------------------
(* get_footprints in FootprintSpec *)

\* the positions of the datasets whose task returned
Succeeded == {i \in 1..Len(fp.future_work) : i \notin fp.failed}

\* the k-th of them, counted along dataset_list
KthSucceeded(k) ==
    CHOOSE i \in Succeeded : Cardinality({j \in Succeeded : j < i}) = k - 1

\* C20: get_footprints returns only after every submitted task has
\* finished; its result holds the footprints of exactly the datasets whose
\* task succeeded, in the order of dataset_list whatever the order the
\* tasks completed in, a failed task being left out.
C20_FootprintsInListOrder ==
    fp.pc = "returned" =>
        /\ Range(fp.completed) = 1..Len(fp.future_work)
        /\ fp.running = {}
        /\ Len(fp.ret) = Cardinality(Succeeded)
        /\ \A k \in 1..Len(fp.ret) :
              fp.ret[k] = get_dataset_info(fp.future_work[KthSucceeded(k)])

\* get_footprints has returned the first and the third footprint of a list
\* of three datasets, in this order, the second task having failed and the
\* third having finished before the first
C20_Witness ==
    /\ fp.pc = "returned"
    /\ fp.future_work = <<"a", "b", "a">> \/ fp.future_work = <<"b", "a", "b">>
    /\ fp.failed = {2}
    /\ fp.completed = <<2, 3, 1>>
    /\ fp.ret = <<get_dataset_info(fp.future_work[1]),
                  get_dataset_info(fp.future_work[3])>>

=============================================================================
